---- MODULE Spec2Model ----
(***************************************************************************)
(* img_collector (src/src/main.rs): the directory index reconciler         *)
(* (FileIndice::from_data_path) and the capture session loop of main.      *)
(*                                                                         *)
(* File names are sequences of characters, so that formatting a counter    *)
(* ("{}.png_"), matching a glob pattern ("*.png") and stripping the last   *)
(* character are computed, not assumed.  A directory is a path             *)
(* [base, label]: base is the store path as written, label is <<>> for the *)
(* store root itself or <<c>> (c a code point) for the label directory of  *)
(* the character c.  The directories under the store root are the label    *)
(* directories, which are real directories, not symbolic links.            *)
(***************************************************************************)
EXTENDS Integers, Sequences, FiniteSets

VARIABLES
    pc,          \* position of the process in main
    source,      \* Args.source: the VideoSource chosen on the command line
    fs,          \* the store: canonical directory -> set of file names
    indice_map,  \* HashMap<String, i32>: directory path -> next index
    todo,        \* entries the running glob iterator has still to yield
    focus,       \* CAP_PROP_FOCUS of the opened video
    released,    \* number of video.release() calls of this process
    runs,        \* number of times the program has been started
    nfail,       \* renames that failed in this run's from_data_path
    nops,        \* record() and set_focus calls made so far
    fs0,         \* history: the store when this run's from_data_path began
    made,        \* history: directory -> record() calls that reached line 195
    snap,        \* history: the outcome of the last completed from_data_path
    ev,          \* history: the last step (key, outcome, value printed)
    sfail,       \* history: stage renames that failed in this run
    aborted      \* history: the run a scan error ended, if the last one did

vars == <<pc, source, fs, indice_map, todo, focus, released, runs, nfail,
          nops, fs0, made, snap, ev, sfail, aborted>>

----------------------------------------------------------------------------
(* Bounds of the model *)

MaxInitFiles == 2
MaxRuns == 2
MaxRenameFailures == 1
MaxOps == 2

----------------------------------------------------------------------------
(* Names *)

Digit(d) == <<"0", "1", "2", "3", "4", "5", "6", "7", "8", "9">>[d + 1]

RECURSIVE ToString(_)
ToString(n) == IF n < 10 THEN <<Digit(n)>>
               ELSE ToString(n \div 10) \o <<Digit(n % 10)>>

PngExt == <<".", "p", "n", "g">>
Marker == <<"_">>

EndsWith(s, suf) ==
    /\ Len(s) >= Len(suf)
    /\ SubSeq(s, Len(s) - Len(suf) + 1, Len(s)) = suf

MatchesPng(n) == EndsWith(n, PngExt)
MatchesStaged(n) == EndsWith(n, PngExt \o Marker)

PngName(i) == ToString(i) \o PngExt

StagedNameNoMarker(count) == ToString(count) \o PngExt
StagedName(count) == ToString(count) \o PngExt \o Marker

StripNothing(name) == name
StripLast(name) == SubSeq(name, 1, Len(name) - 1)

----------------------------------------------------------------------------
(* Paths *)

StorePath == "data"
CanonicalStorePath == "/cwd/data"

Canonicalize(p) == [p EXCEPT !.base = CanonicalStorePath]

RootDir(base) == [base |-> base, label |-> <<>>]
LabelDir(base, c) == [base |-> base, label |-> <<c>>]

Get(m, k) == IF k \in DOMAIN m THEN m[k] ELSE 0

Put(m, k, v) == [x \in DOMAIN m \cup {k} |-> IF x = k THEN v ELSE m[x]]

(* glob::glob(base/**/*<suffix>): the entries under base, as paths under base *)
Glob(f, base, suffix) ==
    UNION { { [dir |-> [base |-> base, label |-> d.label], name |-> n] :
                n \in {m \in f[d] : EndsWith(m, suffix)} } : d \in DOMAIN f }

RenameCopy(f, d, old, new) ==
    IF old \in f[d] THEN [f EXCEPT ![d] = @ \cup {new}] ELSE f
(* fs::rename(dir/old, dir/new): the target is replaced when it exists *)
Rename(f, d, old, new) ==
    IF old \in f[d] THEN [f EXCEPT ![d] = (@ \ {old}) \cup {new}] ELSE f

----------------------------------------------------------------------------
(* Initial states *)

Sources == { [kind |-> "File", auto |-> FALSE, value |-> 0],
             [kind |-> "Capture", auto |-> TRUE, value |-> 0],
             [kind |-> "Capture", auto |-> FALSE, value |-> 500] }

DeviceFocus == {1}

XPng == <<"x">> \o PngExt

RECURSIVE SumCard(_, _)
SumCard(f, D) ==
    IF D = {} THEN 0
    ELSE LET d == CHOOSE e \in D : TRUE
         IN Cardinality(f[d]) + SumCard(f, D \ {d})

NoStore == [d \in {} |-> {}]

Root == RootDir(CanonicalStorePath)
InitDirs == { Root, LabelDir(CanonicalStorePath, 97) }

Trees(names) ==
    { f \in [InitDirs -> SUBSET names] : SumCard(f, InitDirs) <= MaxInitFiles }

(* stores a session starts on: none, or one whose label directory a holds  *)
(* up to MaxInitFiles files                                                 *)
SessionTrees ==
    {NoStore} \cup { f \in Trees({XPng, PngName(1), StagedName(0)}) : f[Root] = {} }

(* stores a reconcile starts on: up to MaxInitFiles files in the root and   *)
(* the label directory a                                                    *)
ReconcileTrees ==
    Trees({XPng, PngName(0), PngName(1), PngName(3), StagedName(0)})

NoSnap == [valid |-> FALSE, clean |-> FALSE, fs |-> NoStore, im |-> NoStore]

NoAbort == [valid |-> FALSE, fs |-> NoStore]

Ev(op, key, res) == [op |-> op, key |-> key, res |-> res, val |-> -1]

(* line 213: println!("Focus: {}", f) prints the value video.focus() gave *)
FocusReport(key, f) ==
    [op |-> "key", key |-> key, res |-> "focus_reported", val |-> f]

InitWith(trees, sources) ==
    /\ pc = "main"
    /\ source \in sources
    /\ fs \in trees
    /\ indice_map = NoStore
    /\ todo = {}
    /\ focus \in DeviceFocus
    /\ released = 0
    /\ runs = 1
    /\ nfail = 0
    /\ nops = 0
    /\ fs0 = fs
    /\ made = NoStore
    /\ snap = NoSnap
    /\ ev = Ev("start", -1, "ok")
    /\ sfail = 0
    /\ aborted = NoAbort

Init == InitWith(SessionTrees, Sources)

InitReconcile == InitWith(ReconcileTrees, {s \in Sources : s.kind = "File"})

----------------------------------------------------------------------------
(* Startup: main, lines 154-176 *)

HasStaged(f) == \E d \in DOMAIN f : \E n \in f[d] : MatchesStaged(n)

(* lines 156-170: open the source, apply the focus mode, query the size *)
OpenSource ==
    /\ pc = "main"
    /\ \E opened \in BOOLEAN, setOk \in BOOLEAN :
          IF opened
          THEN /\ pc' = "opened"
               /\ focus' = IF source.kind = "Capture" /\ ~source.auto /\ setOk
                           THEN source.value ELSE focus
               /\ ev' = Ev("open", -1, "ok")
          ELSE /\ pc' = "error"
               /\ focus' = focus
               /\ ev' = Ev("open", -1, "failed")
    /\ UNCHANGED <<source, fs, indice_map, todo, released, runs, nfail, nops, fs0, snap,
                   made,
                   sfail, aborted>>

(* fs::create_dir_all(path): Ok when the directory exists afterwards *)
CreateDir(f, d, ok) ==
    IF ok /\ d \notin DOMAIN f
    THEN [x \in DOMAIN f \cup {d} |-> IF x = d THEN {} ELSE f[x]]
    ELSE f

StageBaseRaw == StorePath
(* line 114-115: the stage scan runs under the canonicalized store path *)
StageBase == CanonicalStorePath

(* line 128-129: the commit scan runs under the store path as written *)
CommitBase == StorePath

(* lines 171-172, 112-115: create the store, canonicalize it, start the stage scan *)
BeginReconcile ==
    /\ pc = "opened"
    /\ \E mk \in BOOLEAN :
         LET f == CreateDir(fs, RootDir(CanonicalStorePath), mk)
         IN /\ fs' = f
            /\ fs0' = f
            /\ IF RootDir(CanonicalStorePath) \in DOMAIN f
               THEN /\ pc' = "stage"
                    /\ todo' = Glob(f, StageBase, PngExt)
                    /\ ev' = Ev("reconcile", -1, "ok")
               ELSE /\ pc' = "error"
                    /\ todo' = {}
                    /\ ev' = Ev("reconcile", -1, "failed")
    /\ indice_map' = NoStore
    /\ nfail' = 0
    /\ UNCHANGED <<source, focus, released, runs, nops, snap,
                   made,
                   sfail, aborted>>

AfterRenameAbortOnFailure(phase, ok) == IF ok THEN phase ELSE "error"
(* lines 125 and 142: let _ = fs::rename(..), the result is dropped and the *)
(* loop goes on                                                             *)
AfterRename(phase, ok) == phase

StageCountStuck(count) == count
(* line 126: *count += 1.into(), whatever the rename returned *)
StageCountAfter(count) == count + 1

(* lines 116-126: one iteration of the stage loop on a yielded entry *)
StageStep ==
    /\ pc = "stage"
    /\ \E e \in todo, ok \in BOOLEAN :
         LET parent_str == e.dir
             count == Get(indice_map, parent_str)
             new_name == StagedName(count)
         IN /\ ok \/ nfail < MaxRenameFailures
            /\ fs' = IF ok THEN Rename(fs, Canonicalize(e.dir), e.name, new_name)
                      ELSE fs
            /\ indice_map' = Put(indice_map, parent_str, StageCountAfter(count))
            /\ nfail' = IF ok THEN nfail ELSE nfail + 1
            /\ sfail' = IF ok THEN sfail ELSE sfail + 1
            /\ pc' = AfterRename("stage", ok)
            /\ todo' = IF pc' = "stage" THEN todo \ {e} ELSE {}
            /\ ev' = Ev("stage", -1, IF ok THEN "ok" ELSE "failed")
    /\ UNCHANGED <<source, focus, released, runs, nops, fs0, snap, made,
                   aborted>>

(* lines 116 and 130: the scan yields an error, from_data_path returns it *)
ScanError ==
    /\ pc \in {"stage", "commit"}
    /\ pc' = "error"
    /\ todo' = {}
    /\ snap' = [snap EXCEPT !.valid = FALSE]
    /\ ev' = Ev("scan", -1, "failed")
    /\ aborted' = [valid |-> nfail = 0 /\ ~HasStaged(fs0) /\ HasStaged(fs),
                   fs |-> fs0]
    /\ UNCHANGED <<source, fs, indice_map, focus, released, runs, nfail, nops, fs0,
                   made, sfail>>

(* lines 127-129: the stage scan is exhausted, the commit scan starts *)
StageDone ==
    /\ pc = "stage"
    /\ todo = {}
    /\ pc' = "commit"
    /\ todo' = Glob(fs, CommitBase, PngExt \o Marker)
    /\ ev' = Ev("staged", -1, "ok")
    /\ UNCHANGED <<source, fs, indice_map, focus, released, runs, nfail, nops, fs0, snap,
                   made,
                   sfail, aborted>>

(* lines 130-142: one iteration of the commit loop on a yielded entry *)
CommitStep ==
    /\ pc = "commit"
    /\ \E e \in todo, ok \in BOOLEAN :
         LET name == StripLast(e.name)
         IN /\ ok \/ nfail < MaxRenameFailures
            /\ fs' = IF ok THEN Rename(fs, Canonicalize(e.dir), e.name, name)
                      ELSE fs
            /\ nfail' = IF ok THEN nfail ELSE nfail + 1
            /\ pc' = AfterRename("commit", ok)
            /\ todo' = IF pc' = "commit" THEN todo \ {e} ELSE {}
            /\ ev' = Ev("commit", -1, IF ok THEN "ok" ELSE "failed")
    /\ UNCHANGED <<source, indice_map, focus, released, runs, nops,
                   fs0, snap,
                   made,
                   sfail, aborted>>

(* lines 143-145, 172-173: from_data_path returns Ok(result), main prints it *)
CommitDone ==
    /\ pc = "commit"
    /\ todo = {}
    /\ pc' = "reconciled"
    /\ snap' = [valid |-> nfail = 0, clean |-> ~HasStaged(fs0),
                fs |-> fs, im |-> indice_map]
    /\ ev' = Ev("reconciled", -1, "ok")
    /\ UNCHANGED <<source, fs, indice_map, todo, focus, released, runs, nfail,
                   nops, fs0,
                   made,
                   sfail, aborted>>

(* lines 175-177: allocate the frame buffer and enter the loop *)
EnterLoop ==
    /\ pc = "reconciled"
    /\ \E ok \in BOOLEAN :
         /\ pc' = IF ok THEN "read" ELSE "error"
         /\ ev' = Ev("alloc", -1, IF ok THEN "ok" ELSE "failed")
    /\ aborted' = NoAbort
    /\ UNCHANGED <<source, fs, indice_map, todo, focus, released, runs, nfail,
                   nops, fs0, snap, made, sfail>>

----------------------------------------------------------------------------
(* The session loop: main, lines 177-225 *)

(* wait_key results the model draws from: -1 (no key), '\r', '+', '-',     *)
(* '#', '0', '5', '9', 'A', 'Z', 'a', 'z', and 0xD800 (not a char)          *)
KeyCodes == {-1, 13, 43, 45, 35, 48, 53, 57, 65, 90, 97, 122, 55296}

(* line 187: char::from_u32(key as u32), <<>> for None and <<c>> for Some(c). *)
(* A negative i32 becomes a u32 of at least 2^31, beyond the last code point *)
(* 0x10FFFF; 0xD800..0xDFFF are surrogates.                                  *)
CharFromU32(key) ==
    IF key < 0 \/ (key >= 55296 /\ key <= 57343) \/ key > 1114111
    THEN <<>> ELSE <<key>>

IsRecordKeyElse(c) == c \notin {13, 45, 43}
(* line 217: 'a'..'z' | '0'..'9' | 'A'..'Z', ranges that exclude their end *)
IsRecordKey(c) ==
    \/ (97 <= c /\ c < 122)
    \/ (48 <= c /\ c < 57)
    \/ (65 <= c /\ c < 90)

IsFocusKey(c) == c \in {13, 45, 43}

Max(a, b) == IF a >= b THEN a ELSE b

FocusDownNoFloor(f) == f - 1
(* line 215: video.focus()?.max(1.0) - 1.0 *)
FocusDown(f) == Max(f, 1) - 1
FocusUpStuck(f) == f
(* line 216: video.focus()? + 1.0 *)
FocusUp(f) == f + 1

AfterReadBreakOnFailure(ok) == IF ok THEN "show" ELSE "stopped"
(* line 178: if let Ok(true) = video.read(..) {}: the result changes nothing *)
AfterRead(ok) == "show"

(* line 178: video.read, whose result is ignored *)
ReadFrame ==
    /\ pc = "read"
    /\ \E ok \in BOOLEAN :
         /\ pc' = AfterRead(ok)
         /\ ev' = Ev("read", -1, IF ok THEN "ok" ELSE "failed")
    /\ UNCHANGED <<source, fs, indice_map, todo, focus, released, runs, nfail,
                   nops, fs0, snap,
                   made,
                   sfail, aborted>>

(* line 179: imshow succeeded *)
ShowOk ==
    /\ pc = "show"
    /\ pc' = "poll"
    /\ ev' = Ev("show", -1, "ok")
    /\ UNCHANGED <<source, fs, indice_map, todo, focus, released, runs, nfail,
                   nops, fs0, snap,
                   made,
                   sfail, aborted>>

(* lines 179-181, 224-225: imshow failed, break, release the video, Ok(()) *)
ShowFail ==
    /\ pc = "show"
    /\ pc' = "stopped"
    /\ released' = released + 1
    /\ ev' = Ev("show", -1, "failed")
    /\ UNCHANGED <<source, fs, indice_map, todo, focus, runs, nfail, nops, fs0, snap,
                   made,
                   sfail, aborted>>

(* line 183: wait_key returned an error, .ok() is None, the loop goes on *)
PollFail ==
    /\ pc = "poll"
    /\ pc' = "read"
    /\ ev' = Ev("poll", -1, "poll_failed")
    /\ UNCHANGED <<source, fs, indice_map, todo, focus, released, runs, nfail,
                   nops, fs0, snap,
                   made,
                   sfail, aborted>>

(* lines 184-186: key == -1, continue *)
NoKey ==
    /\ pc = "poll"
    /\ pc' = "read"
    /\ ev' = Ev("key", -1, "no_key")
    /\ UNCHANGED <<source, fs, indice_map, todo, focus, released, runs, nfail,
                   nops, fs0, snap,
                   made,
                   sfail, aborted>>

(* lines 187-190: the key code is no char, continue *)
InvalidKey ==
    /\ pc = "poll"
    /\ \E key \in KeyCodes \ {-1} :
         /\ CharFromU32(key) = <<>>
         /\ ev' = Ev("key", key, "invalid_char")
    /\ pc' = "read"
    /\ UNCHANGED <<source, fs, indice_map, todo, focus, released, runs, nfail,
                   nops, fs0, snap,
                   made,
                   sfail, aborted>>

(* lines 218-220: any other char, continue *)
KeyOther ==
    /\ pc = "poll"
    /\ \E key \in KeyCodes \ {-1} :
         /\ CharFromU32(key) # <<>>
         /\ ~IsFocusKey(CharFromU32(key)[1])
         /\ ~IsRecordKey(CharFromU32(key)[1])
         /\ ev' = Ev("key", key, "ignored")
    /\ pc' = "read"
    /\ UNCHANGED <<source, fs, indice_map, todo, focus, released, runs, nfail,
                   nops, fs0, snap,
                   made,
                   sfail, aborted>>

AfterFocusFailureContinue == "read"
(* lines 212, 215, 216: the ? on video.focus() and video.set_focus() returns *)
(* the error from main                                                       *)
AfterFocusFailure == "error"

(* lines 211-214: '\r' queries the focus and prints it *)
KeyEnter ==
    /\ pc = "poll"
    /\ \E key \in KeyCodes \ {-1}, getOk \in BOOLEAN :
         /\ CharFromU32(key) = <<13>>
         /\ pc' = IF getOk THEN "read" ELSE AfterFocusFailure
         /\ ev' = IF getOk THEN FocusReport(key, focus)
                   ELSE Ev("key", key, "focus_get_failed")
    /\ UNCHANGED <<source, fs, indice_map, todo, focus, released, runs, nfail,
                   nops, fs0, snap,
                   made,
                   sfail, aborted>>

(* outcomes of VideoCapture::set: Ok(true), Ok(false), Err *)
SetOutcomes == {"applied", "refused", "error"}

(* lines 215-216: '-' and '+' query the focus and set the new value *)
KeyFocus ==
    /\ pc = "poll"
    /\ nops < MaxOps
    /\ \E key \in KeyCodes \ {-1}, getOk \in BOOLEAN, set \in SetOutcomes :
         LET c == CharFromU32(key)
             value == IF c = <<45>> THEN FocusDown(focus) ELSE FocusUp(focus)
         IN /\ c \in {<<45>>, <<43>>}
            /\ IF ~getOk
               THEN /\ pc' = AfterFocusFailure
                    /\ UNCHANGED <<focus, nops>>
                    /\ ev' = Ev("key", key, "focus_get_failed")
               ELSE /\ pc' = IF set = "error" THEN AfterFocusFailure ELSE "read"
                    /\ focus' = IF set = "applied" THEN value ELSE focus
                    /\ nops' = nops + 1
                    /\ ev' = Ev("key", key,
                                CASE set = "applied" -> "focus_set"
                                  [] set = "refused" -> "focus_refused"
                                  [] OTHER -> "focus_set_failed")
    /\ UNCHANGED <<source, fs, indice_map, todo, released, runs, nfail, fs0,
                   snap,
                   made,
                   sfail, aborted>>

(* line 192: PathBuf::from(&args.store_path).join(key.to_string()) *)
RecordDir(c) == LabelDir(StorePath, c)

RecordKeyStore(c) == Canonicalize(RootDir(StorePath))
(* lines 194-196: the canonicalized directory, as the key of the map *)
RecordKey(c) == Canonicalize(RecordDir(c))

RecordNameNext(index) == PngName(index + 1)
(* line 198: format!("{}.png", index) *)
RecordName(index) == PngName(index)

IndexAfterOnSuccess(index, written) == IF written THEN index + 1 ELSE index
(* line 200: *index += 1, before the write and whatever its result *)
IndexAfter(index, written) == index + 1

AfterPathErrorContinue == "read"
(* lines 194, 217: dir.canonicalize()? returns from record, record()? from  *)
(* main                                                                     *)
AfterPathError == "error"

(* lines 191-209, 217: a label key calls record() *)
KeyRecord ==
    /\ pc = "poll"
    /\ nops < MaxOps
    /\ \E key \in KeyCodes \ {-1}, mk \in BOOLEAN, canon \in BOOLEAN,
          written \in BOOLEAN :
         LET c == CharFromU32(key)
             dir == RecordKey(c[1])
             f == CreateDir(fs, dir, mk)
             index == Get(indice_map, dir)
         IN /\ c # <<>>
            /\ IsRecordKey(c[1])
            /\ IF ~(canon /\ dir \in DOMAIN f)
               THEN /\ pc' = AfterPathError
                    /\ fs' = f
                    /\ UNCHANGED <<indice_map, made>>
                    /\ ev' = Ev("key", key, "path_error")
               ELSE /\ pc' = "read"
                    /\ indice_map' = Put(indice_map, dir, IndexAfter(index, written))
                    /\ made' = Put(made, dir, Get(made, dir) + 1)
                    /\ fs' = IF written
                              THEN [f EXCEPT ![dir] = @ \cup {RecordName(index)}]
                              ELSE f
                    /\ ev' = Ev("key", key, IF written THEN "saved"
                                             ELSE "write_failed")
    /\ nops' = nops + 1
    /\ snap' = [snap EXCEPT !.valid = FALSE]
    /\ UNCHANGED <<source, todo, focus, released, runs, nfail, fs0,
                   sfail, aborted>>

(* the program is started again on the store the last run left *)
Restart ==
    /\ pc \in {"stopped", "error"}
    /\ runs < MaxRuns
    /\ pc' = "main"
    /\ runs' = runs + 1
    /\ released' = 0
    /\ indice_map' = NoStore
    /\ todo' = {}
    /\ nfail' = 0
    /\ sfail' = 0
    /\ fs0' = fs
    /\ made' = NoStore
    /\ ev' = Ev("start", -1, "ok")
    /\ UNCHANGED <<source, fs, focus, nops, snap, aborted>>

(* one run of the program: startup, reconcile and the session loop *)
Next ==
    \/ OpenSource
    \/ BeginReconcile
    \/ StageStep
    \/ ScanError
    \/ StageDone
    \/ CommitStep
    \/ CommitDone
    \/ EnterLoop
    \/ ReadFrame
    \/ ShowOk
    \/ ShowFail
    \/ PollFail
    \/ NoKey
    \/ InvalidKey
    \/ KeyOther
    \/ KeyEnter
    \/ KeyFocus
    \/ KeyRecord

Spec == Init /\ [][Next]_vars

(* runs of the program in which no key is pressed and the display is       *)
(* closed, each started on the store the run before it left                *)
NextReconcile ==
    \/ OpenSource
    \/ BeginReconcile
    \/ StageStep
    \/ ScanError
    \/ StageDone
    \/ CommitStep
    \/ CommitDone
    \/ EnterLoop
    \/ ReadFrame
    \/ ShowFail
    \/ Restart

SpecReconcile == InitReconcile /\ [][NextReconcile]_vars

----------------------------------------------------------------------------
(* Properties of the reconciler *)

DirA == LabelDir(CanonicalStorePath, 97)

Samples(f, d) == {n \in f[d] : MatchesPng(n)}
Staged(f, d) == {n \in f[d] : MatchesStaged(n)}

Numbered(n) == {PngName(k) : k \in 0 .. n - 1}

(* d holds exactly 0.png .. (N-1).png and its counter is N, N the number   *)
(* of sample files d held when from_data_path began                        *)
Contiguous(d) ==
    LET N == Cardinality(Samples(fs0, d))
    IN /\ fs[d] = Numbered(N)
       /\ Get(indice_map, d) = N

(* C1 as stated: a completed reconcile in which no rename failed leaves    *)
(* every directory that held N sample files holding exactly 0.png ..       *)
(* (N-1).png, with IndexMap[dir] = N.                                      *)
C1_ContiguityAnyDirectory ==
    (pc = "reconciled" /\ nfail = 0) =>
        \A d \in DOMAIN fs0 : Contiguous(d)

(* C1 amended: a completed reconcile in which no rename failed leaves      *)
(* every directory that held N sample files and no file carrying the       *)
(* '.png_' marker holding exactly 0.png .. (N-1).png, with                 *)
(* IndexMap[dir] = N.                                                      *)
C1_Contiguity ==
    (pc = "reconciled" /\ nfail = 0) =>
        \A d \in DOMAIN fs0 : Staged(fs0, d) = {} => Contiguous(d)

(* a completed reconcile without a failed rename of a directory that held  *)
(* two sample files, one of them with a non-numeric name, and no marker    *)
C1_Witness ==
    /\ pc = "reconciled"
    /\ nfail = 0
    /\ \E d \in DOMAIN fs0 :
         /\ Staged(fs0, d) = {}
         /\ XPng \in fs0[d]
         /\ Cardinality(Samples(fs0, d)) = 2

(* C2 as stated: no step of the stage phase changes the number of files    *)
(* of any directory, that is, no stage rename replaces a file, whatever    *)
(* names the directory held.                                               *)
C2_StageNeverOverwrites ==
    [][pc = "stage" =>
         \A d \in DOMAIN fs : Cardinality(fs'[d]) = Cardinality(fs[d])]_vars

(* C2 amended: in a directory that held no file carrying the '.png_'       *)
(* marker when the stage phase began, no step of the stage phase changes   *)
(* the number of files: the staged name is never the name of a file        *)
(* present, so no stage rename replaces a file.                            *)
C2_StageCollisionFree ==
    [][pc = "stage" =>
         \A d \in DOMAIN fs :
            Staged(fs0, d) = {} => Cardinality(fs'[d]) = Cardinality(fs[d])]_vars

(* the stage phase has staged both files of a directory that held 0.png    *)
(* and 1.png and no marker                                                 *)
C2_Witness ==
    /\ pc = "stage"
    /\ todo = {}
    /\ nfail = 0
    /\ \E d \in DOMAIN fs0 :
         /\ fs0[d] = {PngName(0), PngName(1)}
         /\ fs[d] = {StagedName(0), StagedName(1)}

----------------------------------------------------------------------------
(* Properties of the session loop *)

RecordOutcomes == {"saved", "write_failed", "path_error"}

InLoop == pc \in {"read", "show", "poll"}

(* the step dispatched a key and record() ended with outcome res *)
Recorded(res) == pc = "poll" /\ ev'.op = "key" /\ ev'.res = res

(* the label directory of the key of the step *)
KeyDir == LabelDir(CanonicalStorePath, ev'.key)

(* C4: a Record whose write succeeds, for a character whose directory d    *)
(* has IndexMap[d] = i (0 without an entry), creates i.png in d and leaves *)
(* IndexMap[d] = i + 1.                                                    *)
C4_RecordMonotonic ==
    [][Recorded("saved") =>
         LET i == Get(indice_map, KeyDir)
         IN /\ KeyDir \in DOMAIN fs'
            /\ fs'[KeyDir] = (IF KeyDir \in DOMAIN fs THEN fs[KeyDir] ELSE {})
                                \cup {PngName(i)}
            /\ KeyDir \in DOMAIN indice_map'
            /\ indice_map'[KeyDir] = i + 1]_vars

(* two successful Records of a in a row on an empty store have created     *)
(* 0.png and then 1.png                                                    *)
C4_Witness ==
    /\ pc = "read"
    /\ ev = Ev("key", 97, "saved")
    /\ DirA \notin DOMAIN fs0
    /\ Get(made, DirA) = 2
    /\ fs[DirA] = Numbered(2)
    /\ Get(indice_map, DirA) = 2

IsAlphanumeric(c) ==
    \/ (97 <= c /\ c <= 122)
    \/ (65 <= c /\ c <= 90)
    \/ (48 <= c /\ c <= 57)

(* C6: with a live-device source every alphanumeric key, the endpoints     *)
(* 'z', 'Z' and '9' included, invokes Record.                              *)
C6_AlphanumericRecords ==
    (source.kind = "Capture" /\ ev.op = "key" /\ IsAlphanumeric(ev.key)) =>
        ev.res \in RecordOutcomes

(* C7: with a file source every received key that is a character invokes   *)
(* Record, and no focus query or focus set is performed.                   *)
C7_FileSourceRecordsEveryKey ==
    (source.kind = "File" /\ ev.op = "key"
        /\ ev.res \notin {"no_key", "invalid_char"}) =>
        ev.res \in RecordOutcomes

(* C8: a Record whose write fails creates no file, leaves IndexMap[d] =     *)
(* i + 1 all the same, and the loop goes on with its next iteration.       *)
C8_WriteFailureSwallowed ==
    [][Recorded("write_failed") =>
         LET i == Get(indice_map, KeyDir)
         IN /\ pc' = "read"
            /\ Get(indice_map', KeyDir) = i + 1
            /\ \A d \in DOMAIN fs : fs'[d] = fs[d]
            /\ \A d \in DOMAIN fs' \ DOMAIN fs : fs'[d] = {}]_vars

(* a Record of a has saved 0.png and the next Record of a has failed to    *)
(* write 1.png: the counter is 2                                           *)
C8_Witness ==
    /\ pc = "read"
    /\ ev = Ev("key", 97, "write_failed")
    /\ fs[DirA] = {PngName(0)}
    /\ Get(indice_map, DirA) = 2

FocusFailures == {"focus_get_failed", "focus_set_failed"}

(* C9: when the key is carriage-return, '-' or '+' and the focus query or  *)
(* the focus set fails, the loop ends with an error, not with the graceful *)
(* stop and not with another iteration, and the step changes neither the   *)
(* IndexMap nor the files.                                                 *)
C9_FocusFailureFatal ==
    [][(pc = "poll" /\ ev'.op = "key" /\ ev'.res \in FocusFailures) =>
         /\ ev'.key \in {13, 45, 43}
         /\ pc' = "error"
         /\ released' = released
         /\ indice_map' = indice_map
         /\ fs' = fs
         /\ focus' = focus]_vars

(* the focus set of a '+' has failed and the process has ended in error    *)
C9_Witness ==
    /\ pc = "error"
    /\ ev = Ev("key", 43, "focus_set_failed")
    /\ released = 0

Survivable ==
    { Ev("read", -1, "failed"), Ev("poll", -1, "poll_failed"),
      Ev("key", -1, "no_key") }
    \cup { Ev("key", k, r) : k \in KeyCodes,
                             r \in {"invalid_char", "ignored", "write_failed"} }

(* C10: the loop reaches the graceful stop exactly by a failed              *)
(* presentation; that step polls no key and changes neither the IndexMap,  *)
(* the files nor the focus; a failed frame read, a failed key poll, no     *)
(* key, an unrecognized key and a failed write leave the loop running; at  *)
(* the stop the video has been released exactly once and the process takes *)
(* no further step.                                                        *)
C10_StopOnlyOnDisplayFailure ==
    /\ [][(pc' = "stopped" /\ pc # "stopped") =>
             (pc = "show" /\ ev' = Ev("show", -1, "failed"))]_vars
    /\ [][(pc = "show" /\ ev' = Ev("show", -1, "failed")) =>
             /\ pc' = "stopped"
             /\ released' = released + 1
             /\ UNCHANGED <<indice_map, fs, focus, nops, made>>]_vars
    /\ [][(InLoop /\ ev' \in Survivable) => InLoop']_vars
    /\ [](released = (IF pc = "stopped" THEN 1 ELSE 0))
    /\ [][pc # "stopped"]_vars

(* a Record of a has failed to write, the loop has gone on, and the        *)
(* display has then failed: the process has stopped, the video released    *)
C10_Witness ==
    /\ pc = "stopped"
    /\ released = 1
    /\ ev = Ev("show", -1, "failed")
    /\ Get(made, DirA) = 1
    /\ DirA \in DOMAIN fs
    /\ fs[DirA] = {}

----------------------------------------------------------------------------
(* C11: focus floor.  With the current focus f >= 0, a '-' press whose set *)
(* the device applies sets the focus to max(f, 1) - 1: f - 1 when f >= 1,  *)
(* 0 when f < 1; the focus is never negative, whatever the keys pressed.   *)
C11_FocusFloor ==
    /\ [](focus >= 0)
    /\ [][(pc = "poll" /\ ev'.op = "key" /\ ev'.key = 45
             /\ ev'.res = "focus_set")
          => /\ focus' = (IF focus >= 1 THEN focus - 1 ELSE 0)
             /\ focus' >= 0]_vars

(* two '-' presses on the device that opened with focus 1: 1 -> 0 -> 0 *)
C11_Witness ==
    /\ pc = "read"
    /\ source.kind = "Capture"
    /\ source.auto
    /\ nops = 2
    /\ focus = 0
    /\ ev = Ev("key", 45, "focus_set")
    /\ \A d \in DOMAIN made : made[d] = 0

(* C12: focus increment and report.  On a device that stores what is set,  *)
(* '+' sets the focus to the current focus plus 1, and a carriage-return   *)
(* prints the focus the device holds; so after k presses of '+' from the   *)
(* fixed focus v the printed value is v + k (500, '+', Enter prints 501).  *)
C12_FocusIncrementReported ==
    /\ [][(pc = "poll" /\ ev'.op = "key" /\ ev'.key = 43
             /\ ev'.res = "focus_set")
          => focus' = focus + 1]_vars
    /\ [][(pc = "poll" /\ ev'.op = "key" /\ ev'.res = "focus_reported")
          => /\ ev'.key = 13
             /\ ev'.val = focus
             /\ focus' = focus]_vars
    /\ []((/\ source.kind = "Capture" /\ ~source.auto
           /\ ev.res = "focus_reported"
           /\ nops = 1
           /\ focus > source.value)
          => ev.val = source.value + 1)

(* fixed focus 500, one '+', then Enter prints 501 *)
C12_Witness ==
    /\ pc = "read"
    /\ source = [kind |-> "Capture", auto |-> FALSE, value |-> 500]
    /\ nops = 1
    /\ focus = 501
    /\ ev = FocusReport(13, 501)

(* C13: rename failures in from_data_path are best-effort.  A failed       *)
(* rename, in the stage or in the commit phase, leaves the run in its      *)
(* phase; the stage counter of a directory advances by one for every       *)
(* sample file the scan yields, renamed or not; so the map a completed     *)
(* run returns gives every directory the number of .png files it held,     *)
(* whichever renames failed.                                               *)
C13_RenameFailureBestEffort ==
    /\ [][(pc \in {"stage", "commit"} /\ ev'.op = pc /\ ev'.res = "failed")
          => /\ pc' = pc
             /\ fs' = fs]_vars
    /\ [][(pc = "stage" /\ ev'.op = "stage")
          => \E d \in DOMAIN indice_map' :
                indice_map' = Put(indice_map, d, Get(indice_map, d) + 1)]_vars
    /\ [](pc = "reconciled"
          => \A d \in DOMAIN fs0 :
                Get(indice_map, d) = Cardinality(Samples(fs0, d)))

(* a completed run in which a rename of one of two sample files failed *)
C13_Witness ==
    /\ pc = "reconciled"
    /\ nfail >= 1
    /\ Cardinality(Samples(fs0, DirA)) = 2
    /\ Get(indice_map, DirA) = 2
    /\ fs[DirA] # Numbered(2)

(* a commit rename that succeeded moved one staged file of one directory   *)
(* onto a name no file of the directory held                               *)
CommitMovedToFreeName ==
    \E d \in DOMAIN fs : \E n \in Staged(fs, d) :
       /\ StripLast(n) \notin fs[d]
       /\ fs' = [fs EXCEPT ![d] = (@ \ {n}) \cup {StripLast(n)}]

(* C14 as stated: when every stage rename succeeded, each commit rename    *)
(* targets a name no file of the directory holds, and every directory      *)
(* holds after the commit phase as many files as before the stage phase.   *)
C14_CommitKeepsStageCount ==
    /\ [][(pc = "commit" /\ sfail = 0 /\ ev'.op = "commit" /\ ev'.res = "ok")
          => CommitMovedToFreeName]_vars
    /\ []((pc = "reconciled" /\ sfail = 0)
          => \A d \in DOMAIN fs0 : Cardinality(fs[d]) = Cardinality(fs0[d]))

(* C14: collision-freedom of the commit phase.  When every stage rename    *)
(* succeeded, each commit rename targets a name no file of the directory   *)
(* holds, so no commit step changes the number of files of a directory;    *)
(* a directory that held no staged file before startup holds after the     *)
(* commit phase as many files as before the stage phase.                   *)
C14_CommitCollisionFree ==
    /\ [][(pc = "commit" /\ sfail = 0 /\ ev'.op = "commit" /\ ev'.res = "ok")
          => CommitMovedToFreeName]_vars
    /\ [][(pc = "commit" /\ sfail = 0)
          => \A d \in DOMAIN fs : Cardinality(fs'[d]) = Cardinality(fs[d])]_vars
    /\ []((pc = "reconciled" /\ sfail = 0)
          => \A d \in DOMAIN fs0 :
                Staged(fs0, d) = {}
                => Cardinality(fs[d]) = Cardinality(fs0[d]))

(* two sample files, none staged before startup, staged and committed *)
C14_Witness ==
    /\ pc = "reconciled"
    /\ sfail = 0
    /\ nfail = 0
    /\ Staged(fs0, DirA) = {}
    /\ Cardinality(fs0[DirA]) = 2
    /\ fs0[DirA] # Numbered(2)
    /\ fs[DirA] = Numbered(2)

(* C15: record with an unresolvable directory.  When canonicalizing the    *)
(* label directory fails, after the ignored attempt to create it, record   *)
(* returns the error before it touches the map: no entry is inserted or    *)
(* incremented, no file is written, and main returns the error (the loop   *)
(* ends, the video is not released by line 224).                           *)
C15_PathErrorBeforeMap ==
    [][Recorded("path_error")
       => /\ indice_map' = indice_map
          /\ made' = made
          /\ \A d \in DOMAIN fs : fs'[d] = fs[d]
          /\ \A d \in DOMAIN fs' \ DOMAIN fs : fs'[d] = {}
          /\ focus' = focus
          /\ released' = released
          /\ pc' = "error"]_vars

(* the second record of label a fails to resolve the directory *)
C15_Witness ==
    /\ pc = "error"
    /\ ev = Ev("key", 97, "path_error")
    /\ nops = 2
    /\ Get(indice_map, DirA) = 1
    /\ Get(made, DirA) = 1
    /\ fs[DirA] = {PngName(0)}
    /\ released = 0

(* a step of the loop that is not a call of record(): the frame read, the  *)
(* display, and a poll that gave no key, failed, gave no valid character   *)
(* or gave a character that is not alphanumeric                            *)
NotARecord ==
    \/ pc \in {"read", "show"}
    \/ /\ pc = "poll"
       /\ \/ ev'.res \notin RecordOutcomes
          \/ ~IsAlphanumeric(ev'.key)

(* C16: only record() changes the dataset.  In the loop, an iteration with *)
(* no key, a failed poll, a key code that is no character, Enter, '+',     *)
(* '-' or any other key that is not a label leaves the map and the files   *)
(* on disk unchanged; Enter also leaves the focus unchanged.               *)
C16_OnlyRecordMutates ==
    /\ [][(InLoop /\ NotARecord)
          => /\ indice_map' = indice_map
             /\ fs' = fs
             /\ made' = made]_vars
    /\ [][(pc = "poll" /\ ev'.op = "key" /\ ev'.key = 13)
          => focus' = focus]_vars

(* after a record of label a and a '+', Enter is pressed *)
C16_Witness ==
    /\ pc = "read"
    /\ ev = FocusReport(13, 2)
    /\ focus = 2
    /\ nops = 2
    /\ Get(indice_map, DirA) = 1
    /\ fs[DirA] = {PngName(0)}

(* the states after from_data_path returned Ok: the loop and its ends *)
AfterReconcile ==
    \/ pc \in {"reconciled", "read", "show", "poll", "stopped"}
    \/ pc = "error" /\ ev.op \in {"alloc", "key"}

(* every sample file of d carries an index below the counter of d *)
BelowCounter(d) ==
    \A n \in Samples(fs, d) : \E k \in 0 .. Get(indice_map, d) - 1 : n = PngName(k)

(* the record that was just made wrote a file name d did not hold *)
WroteFreshName ==
    LET old == IF KeyDir \in DOMAIN fs THEN fs[KeyDir] ELSE {}
    IN \E n \in fs'[KeyDir] \ old : fs'[KeyDir] = old \cup {n}

(* C17 as stated: after a reconcile in which no rename failed and after    *)
(* any records, every sample file of every directory has an index below    *)
(* the counter of the directory, so a record writes no existing name.      *)
C17_NoOverwriteAnyTree ==
    /\ []((AfterReconcile /\ nfail = 0) => \A d \in DOMAIN fs : BelowCounter(d))
    /\ [][(Recorded("saved") /\ nfail = 0) => WroteFreshName]_vars

(* d held no file carrying the marker when from_data_path began *)
NoMarkerBefore(d) == d \in DOMAIN fs0 => Staged(fs0, d) = {}

(* C17: no-overwrite invariant.  After a reconcile in which no rename      *)
(* failed, and after any sequence of records with succeeding or failing    *)
(* writes, every sample file of a directory that held no staged file       *)
(* before startup has an index below the counter of the directory (0 when  *)
(* it has no entry), so a record in such a directory never writes a file   *)
(* name the directory already holds.                                       *)
C17_NoOverwrite ==
    /\ []((AfterReconcile /\ nfail = 0)
          => \A d \in DOMAIN fs : NoMarkerBefore(d) => BelowCounter(d))
    /\ [][(Recorded("saved") /\ nfail = 0 /\ NoMarkerBefore(KeyDir))
          => WroteFreshName]_vars

(* label a held x.png and 1.png; after the reconcile two records, the      *)
(* first with a failing write, leave 0.png, 1.png, 3.png and counter 4     *)
C17_Witness ==
    /\ pc = "read"
    /\ nfail = 0
    /\ DirA \in DOMAIN fs0
    /\ fs0[DirA] = {XPng, PngName(1)}
    /\ ev = Ev("key", 97, "saved")
    /\ fs[DirA] = {PngName(0), PngName(1), PngName(3)}
    /\ Get(indice_map, DirA) = 4

(* C18: recovery after an aborted reconcile.  When a scan error ends       *)
(* from_data_path part-way through the stage or the commit phase, leaving  *)
(* files that carry the marker, and the program is run again on that tree  *)
(* and from_data_path completes, every directory holds as many files as    *)
(* before the first run, named 0.png .. (N-1).png, and its counter is N.   *)
(* (The first run started without a staged file; no rename failed.)        *)
C18_RecoveryAfterAbort ==
    (pc = "reconciled" /\ nfail = 0 /\ aborted.valid)
    => \A d \in DOMAIN aborted.fs :
          LET N == Cardinality(aborted.fs[d])
          IN /\ Cardinality(fs[d]) = N
             /\ fs[d] = Numbered(N)
             /\ Get(indice_map, d) = N

(* m and n agree on every key but k, where either may have no entry *)
SameBut(m, n, k) ==
    /\ DOMAIN m \ {k} = DOMAIN n \ {k}
    /\ \A d \in DOMAIN m \ {k} : m[d] = n[d]

(* C19: label-keyed counters are independent.  A record for the character  *)
(* c changes only the map entry of the directory of c and only the files   *)
(* of that directory; the name it writes is given by that directory's own  *)
(* counter, so records of other labels in between do not change the file   *)
(* sequence of a label.                                                    *)
C19_LabelsIndependent ==
    /\ [][(pc = "poll" /\ ev'.op = "key" /\ ev'.res \in RecordOutcomes)
          => /\ SameBut(indice_map, indice_map', KeyDir)
             /\ SameBut(fs, fs', KeyDir)
             /\ SameBut(made, made', KeyDir)]_vars
    /\ [][Recorded("saved")
          => fs'[KeyDir] = (IF KeyDir \in DOMAIN fs THEN fs[KeyDir] ELSE {})
                              \cup {PngName(Get(indice_map, KeyDir))}]_vars

(* one record of label A and one of label a, each wrote its own 0.png *)
C19_Witness ==
    /\ pc = "read"
    /\ ev = Ev("key", 97, "saved")
    /\ LabelDir(CanonicalStorePath, 65) \in DOMAIN fs
    /\ fs[LabelDir(CanonicalStorePath, 65)] = {PngName(0)}
    /\ Get(indice_map, LabelDir(CanonicalStorePath, 65)) = 1
    /\ fs[DirA] = {PngName(0)}
    /\ Get(indice_map, DirA) = 1

====
